---- MODULE Spec2Model ----
(***************************************************************************)
(* A model of pypsd's section decoders (src/src/pypsd/sections.py).        *)
(*                                                                         *)
(* A run is one construction of one decoder object over a byte source: the *)
(* base class constructor stores the file object and calls parse().  The   *)
(* state is the source (f), the cursor (pos), the attributes of the object *)
(* under construction (self), the exception raised, if any (err), the      *)
(* position in the code (pc) and the record of the cursor calls made (log).*)
(*                                                                         *)
(* Python values are tagged records, so that None, numbers and strings can *)
(* be told apart: [t |-> "none"], [t |-> "int", v |-> 3], [t |-> "str",    *)
(* v |-> <<56, 66, 80, 83>>] (a string is the sequence of its byte codes). *)
(*                                                                         *)
(* sections.py imports PSDParserBase and CodeMapObject from                *)
(* pypsd/sectionbase.py; the cursor primitives and the class constants of  *)
(* that module are modelled from the specification's section 4.1 and 6.    *)
(*                                                                         *)
(* Lines 5-6 of sections.py read "assert label not None", which is not     *)
(* Python: compiling the module as written raises SyntaxError and no       *)
(* decoder exists.  The decoders are modelled for the module with the two  *)
(* lines read as "is not None"; which of the two the run is over is part   *)
(* of the state (env.source), as are the two other things a run depends    *)
(* on beside its input: whether the interpreter keeps assert statements    *)
(* (env.asserts; python -O compiles them out) and whether the source       *)
(* object has a tell method (env.tell).                                    *)
(***************************************************************************)
EXTENDS Integers, Sequences, FiniteSets, TLC

VARIABLES env, dec, f, start, call, pos, pc, self, err, log

vars == <<env, dec, f, start, call, pos, pc, self, err, log>>

(***************************************************************************)
(* Bounds of the model.                                                    *)
(***************************************************************************)
\* largest declared length of an opaque block (colour data, resources, mask)
MaxLen == 3
\* largest number of layer records of a Layer & Mask section
MaxLayers == 3
\* largest number of channel entries of a layer record
MaxChannels == 3
\* largest offset at which a decoder is constructed over a longer source
MaxStart == 2

(***************************************************************************)
(* Python values.                                                          *)
(***************************************************************************)
PyNone == [t |-> "none"]
PyInt(n) == [t |-> "int", v |-> n]
PyStr(s) == [t |-> "str", v |-> s]
\* a string literal of the code, kept as text
PyText(s) == [t |-> "text", v |-> s]
PyTuple(s) == [t |-> "tuple", v |-> s]
PyList(s) == [t |-> "list", v |-> s]
\* the integers lo..hi as a container (range(lo, hi + 1))
PyRange(lo, hi) == [t |-> "range", lo |-> lo, hi |-> hi]

\* Python's truth value of an object
Truthy(x) ==
    CASE x.t = "none" -> FALSE
      [] x.t = "int" -> x.v # 0
      [] x.t = "str" -> Len(x.v) > 0
      [] x.t \in {"list", "tuple"} -> Len(x.v) > 0
      [] x.t = "text" -> x.v # ""
      [] x.t = "range" -> x.lo <= x.hi

\* a == b
PyEq(a, b) == a.t = b.t /\ (a.t = "none" \/ a.v = b.v)

\* value in container
PyIn(value, container) ==
    CASE container.t = "range" ->
             value.t = "int" /\ container.lo <= value.v /\ value.v <= container.hi
      [] container.t = "list" ->
             \E i \in 1..Len(container.v) : PyEq(value, container.v[i])

\* obj.name = value
SetAttr(obj, name, value) ==
    [a \in DOMAIN obj \cup {name} |-> IF a = name THEN value ELSE obj[a]]

(***************************************************************************)
(* Exceptions.                                                             *)
(***************************************************************************)
NoError == [type |-> "none"]
FormatError(label, kind, expected, value) ==
    [type |-> "BaseException", label |-> label, kind |-> kind,
     expected |-> expected, value |-> value]
KeyError(key) == [type |-> "KeyError", key |-> key]
AssertionError == [type |-> "AssertionError"]
TypeError == [type |-> "TypeError"]
SyntaxError == [type |-> "SyntaxError"]
AttributeError(name) == [type |-> "AttributeError", name |-> name]
Truncation(requested, available) ==
    [type |-> "Truncation", requested |-> requested, available |-> available]

(***************************************************************************)
(* The byte cursor (pypsd/sectionbase.py, from the specification).  Every  *)
(* read returns [err, pos, v]: the exception or NoError, the offset after  *)
(* the call and the value read.  A read past the end of the source raises  *)
(* and leaves the offset where it was.                                     *)
(***************************************************************************)
RECURSIVE BigEndian(_)
BigEndian(bytes) ==
    IF bytes = <<>> THEN 0
    ELSE 256 * BigEndian(SubSeq(bytes, 1, Len(bytes) - 1)) + bytes[Len(bytes)]

\* two's complement of a width-bit unsigned value
Signed(u, width) == IF u >= 2 ^ (width - 1) THEN u - 2 ^ width ELSE u

getsize(file) == Len(file)

ReadRaw(file, p, n) ==
    IF p + n > Len(file)
      THEN [err |-> Truncation(n, Len(file) - p), pos |-> p, v |-> <<>>]
      ELSE [err |-> NoError, pos |-> p + n, v |-> SubSeq(file, p + 1, p + n)]

skip(file, p, n) ==
    LET r == ReadRaw(file, p, n) IN [r EXCEPT !.v = PyNone]

readString(file, p, n) ==
    LET r == ReadRaw(file, p, n)
    IN [r EXCEPT !.v = IF r.err.type = "none" THEN PyStr(r.v) ELSE PyNone]

readTinyInt(file, p) ==
    LET r == ReadRaw(file, p, 1)
    IN [r EXCEPT !.v = IF r.err.type = "none" THEN PyInt(r.v[1]) ELSE PyNone]

\* 16 bits, signed: PSDLayerMask.parse tests the layer count for < 0
readShortInt(file, p) ==
    LET r == ReadRaw(file, p, 2)
    IN [r EXCEPT !.v = IF r.err.type = "none"
                         THEN PyInt(Signed(BigEndian(r.v), 16)) ELSE PyNone]

\* 32 bits; the sources of the model keep the top bit clear, where the signed
\* and the unsigned reading agree
readInt(file, p) ==
    LET r == ReadRaw(file, p, 4)
    IN [r EXCEPT !.v = IF r.err.type = "none"
                         THEN PyInt(BigEndian(r.v)) ELSE PyNone]

\* top, left, bottom, right: four 32-bit integers
getRectangle(file, p) ==
    LET r == ReadRaw(file, p, 16)
    IN [r EXCEPT !.v = IF r.err.type = "none"
                         THEN [t |-> "rect",
                               top |-> BigEndian(SubSeq(r.v, 1, 4)),
                               left |-> BigEndian(SubSeq(r.v, 5, 8)),
                               bottom |-> BigEndian(SubSeq(r.v, 9, 12)),
                               right |-> BigEndian(SubSeq(r.v, 13, 16))]
                         ELSE PyNone]

\* n bytes, the first decomposed into its bits, most significant first
readBits(file, p, n) ==
    LET r == ReadRaw(file, p, n)
    IN [r EXCEPT !.v = IF r.err.type = "none"
                         THEN [i \in 0..7 |-> (r.v[1] \div (2 ^ (7 - i))) % 2]
                         ELSE PyNone]

\* updateLength(): self.length = readInt()
updateLength(file, p) == readInt(file, p)

\* the fields of the file format, written big-endian, and n bytes b
U16(n) == <<n \div 256, n % 256>>
S16(n) == U16(IF n < 0 THEN n + 65536 ELSE n)
U32(n) == <<n \div 16777216, (n \div 65536) % 256, (n \div 256) % 256, n % 256>>
Fill(n, b) == [i \in 1..n |-> b]

\* the class constants of PSDParserBase
SIGNATURE == PyStr(<<56, 66, 80, 83>>)        \* "8BPS"
SIGNATIRE_8BIM == PyStr(<<56, 66, 73, 77>>)   \* "8BIM"
VERSION == PyInt(1)
CHANNELS_RANGE == PyRange(1, 56)
SIZE_RANGE == PyRange(1, 30000)
DEPTH_LIST == PyList(<<PyInt(1), PyInt(8), PyInt(16)>>)

\* validate with the range's upper end left out (value < range[-1])
validate_OpenRange(label, value, range, mustBe, list) ==
    IF env.asserts /\ label.t = "none"
      THEN AssertionError
    ELSE IF env.asserts /\ value.t = "none" /\ range.t = "none" /\ list.t = "none"
      THEN AssertionError
    ELSE IF Truthy(mustBe)
      THEN IF ~PyEq(value, mustBe)
             THEN FormatError(label, "mustBe", mustBe, value)
             ELSE NoError
    ELSE IF Truthy(range)
      THEN IF ~(PyIn(value, range) /\ value.v < range.hi)
             THEN FormatError(label, "range", range, value)
             ELSE NoError
    ELSE IF Truthy(list)
      THEN IF ~PyIn(value, list)
             THEN FormatError(label, "list", list, value)
             ELSE NoError
    ELSE NoError

(***************************************************************************)
(* validate (sections.py 4-20): the exception raised, or NoError.  The two  *)
(* assert statements (5-6) are there when the interpreter keeps asserts.   *)
(***************************************************************************)
validate(label, value, range, mustBe, list) ==
    IF env.asserts /\ label.t = "none"
      THEN AssertionError
    ELSE IF env.asserts /\ value.t = "none" /\ range.t = "none" /\ list.t = "none"
      THEN AssertionError
    ELSE IF Truthy(mustBe)
      THEN IF ~PyEq(value, mustBe)
             THEN FormatError(label, "mustBe", mustBe, value)
             ELSE NoError
    ELSE IF Truthy(range)
      THEN IF ~PyIn(value, range)
             THEN FormatError(label, "range", range, value)
             ELSE NoError
    ELSE IF Truthy(list)
      THEN IF ~PyIn(value, list)
             THEN FormatError(label, "list", list, value)
             ELSE NoError
    ELSE NoError

(***************************************************************************)
(* One cursor call of a parse method at pc = here: the call's result r is  *)
(* stored in attribute attr (when attr is not ""), e is the exception of   *)
(* the validation that follows it, and control goes to next.               *)
(***************************************************************************)
Field(here, next, field, attr, r, e) ==
    /\ pc = here
    /\ pos' = r.pos
    /\ log' = Append(log, [field |-> field, at |-> pos])
    /\ self' = IF r.err.type = "none" /\ attr # ""
                 THEN SetAttr(self, attr, r.v) ELSE self
    /\ err' = IF r.err.type # "none" THEN r.err ELSE e
    /\ pc' = IF err'.type = "none" THEN next ELSE "raised"
    /\ UNCHANGED <<env, dec, f, start, call>>

(***************************************************************************)
(* The import of pypsd.sections, which compiles the module: as written,    *)
(* lines 5-6 are a syntax error and nothing of the module can be used.     *)
(***************************************************************************)
Import ==
    /\ pc = "import"
    /\ IF env.source = "as_written"
         THEN /\ err' = SyntaxError
              /\ pc' = "unloaded"
         ELSE /\ err' = err
              /\ pc' = "new"
    /\ UNCHANGED <<env, dec, f, start, call, pos, self, log>>

(***************************************************************************)
(* PSDHeader (sections.py 23-152).                                         *)
(***************************************************************************)
HeaderAttrs ==
    [a \in {"signature", "version", "channelsNum", "rows", "width", "depth",
            "colorMode"} |-> PyNone]

\* __init__ (52-71)
HeaderInit ==
    /\ pc = "new"
    /\ dec = "Header"
    /\ IF env.tell /\ pos # 0
         THEN /\ err' = TypeError
              /\ pc' = "raised"
              /\ self' = self
         ELSE /\ err' = err
              /\ pc' = "h_signature"
              /\ self' = HeaderAttrs
    /\ UNCHANGED <<env, dec, f, start, call, pos, log>>

\* the signature read and stored, and not validated
HeaderSignature_Unchecked ==
    Field("h_signature", "h_version", "Signature", "signature",
          readString(f, pos, 4), NoError)

\* parse, 81-83
HeaderSignature ==
    LET r == readString(f, pos, 4)
    IN Field("h_signature", "h_version", "Signature", "signature", r,
             validate(PyText("Signature"), r.v, PyNone, SIGNATURE, PyNone))

\* parse, 90-92
HeaderVersion ==
    LET r == readShortInt(f, pos)
    IN Field("h_version", "h_reserved", "Version", "version", r,
             validate(PyText("Version"), r.v, PyNone, VERSION, PyNone))

\* the reserved bytes read and required to be zero
HeaderReserved_MustBeZero ==
    LET r == readString(f, pos, 6)
    IN Field("h_reserved", "h_channels", "Reserved", "",
             r, validate(PyText("Reserved"), r.v, PyNone, PyStr(Fill(6, 0)), PyNone))

\* parse, 97
HeaderReserved ==
    Field("h_reserved", "h_channels", "Reserved", "", skip(f, pos, 6), NoError)

\* parse, 104-106
HeaderChannels ==
    LET r == readShortInt(f, pos)
    IN Field("h_channels", "h_height", "Channels number", "channelsNum", r,
             validate(PyText("Channels number"), r.v, CHANNELS_RANGE, PyNone, PyNone))

\* the height read and stored, and not validated
HeaderHeight_Unchecked ==
    Field("h_height", "h_width", "Height", "height", readInt(f, pos), NoError)

\* parse, 112-114
HeaderHeight ==
    LET r == readInt(f, pos)
    IN Field("h_height", "h_width", "Height", "height", r,
             validate(PyText("Height"), r.v, SIZE_RANGE, PyNone, PyNone))

\* parse, 120-122
HeaderWidth ==
    LET r == readInt(f, pos)
    IN Field("h_width", "h_depth", "Width", "width", r,
             validate(PyText("Width"), r.v, SIZE_RANGE, PyNone, PyNone))

\* parse, 128-130
HeaderDepth ==
    LET r == readShortInt(f, pos)
    IN Field("h_depth", "h_colorMode", "Depth", "depth", r,
             validate(PyText("Depth"), r.v, PyNone, PyNone, DEPTH_LIST))

\* the keys of colorModeMap (136-138)
ColorModeCodes == {0, 1, 2, 3, 4, 7, 8, 9}

\* colorModeMap[code]
colorModeMap(code) ==
    CASE code = 0 -> "Bitmap"
      [] code = 1 -> "Grayscale"
      [] code = 2 -> "Indexed Color"
      [] code = 3 -> "RGB Color"
      [] code = 4 -> "CMYK Color"
      [] code = 7 -> "Multichannel"
      [] code = 8 -> "Duotone"
      [] code = 9 -> "Lab Color"

\* the lookup with a default label for a code that is no key (dict.get)
ColorModeLookup_Default(r) ==
    IF r.err.type # "none" THEN r
    ELSE [r EXCEPT !.v = [t |-> "dict", code |-> r.v.v,
                          label |-> IF r.v.v \in ColorModeCodes
                                      THEN colorModeMap(r.v.v) ELSE "Unknown"]]

\* parse, 139-140: the dictionary stored in self.colorMode, or the KeyError
ColorModeLookup(r) ==
    IF r.err.type # "none" THEN r
    ELSE IF r.v.v \in ColorModeCodes
      THEN [r EXCEPT !.v = [t |-> "dict", code |-> r.v.v,
                            label |-> colorModeMap(r.v.v)]]
      ELSE [r EXCEPT !.err = KeyError(r.v.v), !.v = PyNone]

HeaderColorMode ==
    Field("h_colorMode", "done", "Color Mode", "colorMode",
          ColorModeLookup(readShortInt(f, pos)), NoError)

(***************************************************************************)
(* PSDColorMode (156-194) and PSDImageResources (198-222).                 *)
(***************************************************************************)
\* the length read and the block not skipped
LengthAndSkip_NoSkip(obj, file, p) ==
    LET r == updateLength(file, p)
    IN IF r.err.type # "none" THEN [err |-> r.err, pos |-> r.pos, self |-> obj]
       ELSE [err |-> NoError, pos |-> r.pos, self |-> SetAttr(obj, "length", r.v)]

\* the attributes after updateLength() and skip(self.length), with the
\* exception raised on the way and the offset reached
LengthAndSkip(obj, file, p) ==
    LET r == updateLength(file, p)
        s == skip(file, r.pos, r.v.v)
    IN IF r.err.type # "none" THEN [err |-> r.err, pos |-> r.pos, self |-> obj]
       ELSE [err |-> s.err, pos |-> s.pos, self |-> SetAttr(obj, "length", r.v)]

\* __init__ (172-181)
ColorModeInit ==
    /\ pc = "new"
    /\ dec = "ColorMode"
    /\ self' = [a \in {"data"} |-> PyNone]
    /\ pc' = "cm_parse"
    /\ UNCHANGED <<env, dec, f, start, call, pos, err, log>>

\* parse (184-191)
ColorModeParse ==
    LET r == LengthAndSkip(self, f, pos)
    IN /\ pc = "cm_parse"
       /\ pos' = r.pos
       /\ err' = r.err
       /\ self' = IF r.err.type = "none"
                    THEN SetAttr(r.self, "code", r.self["length"]) ELSE r.self
       /\ pc' = IF r.err.type = "none" THEN "done" ELSE "raised"
       /\ log' = Append(log, [field |-> "length", at |-> pos])
       /\ UNCHANGED <<env, dec, f, start, call>>

\* __init__ (205-212)
ImageResourcesInit ==
    /\ pc = "new"
    /\ dec = "ImageResources"
    /\ self' = <<>>
    /\ pc' = "ir_parse"
    /\ UNCHANGED <<env, dec, f, start, call, pos, err, log>>

\* parse (215-219)
ImageResourcesParse ==
    LET r == LengthAndSkip(self, f, pos)
    IN /\ pc = "ir_parse"
       /\ pos' = r.pos
       /\ err' = r.err
       /\ self' = r.self
       /\ pc' = IF r.err.type = "none" THEN "done" ELSE "raised"
       /\ log' = Append(log, [field |-> "length", at |-> pos])
       /\ UNCHANGED <<env, dec, f, start, call>>

(***************************************************************************)
(* PSDLayer (334-409).                                                     *)
(***************************************************************************)
\* __init__ (353-356)
LayerAttrs ==
    [a \in {"channels", "blend", "opacity", "clipping"} |->
        CASE a = "channels" -> [t |-> "dict", v |-> <<>>]
          [] a = "opacity" -> PyNone
          [] OTHER -> PyTuple(<<>>)]

\* the body of the channel loop after its two reads (377-383): the
\* dictionary self.channels (a function of the channel ids) after it
ChannelsPut(channels, channelId, channelLength) ==
    IF channelId \in DOMAIN channels
      THEN IF channels[channelId].t = "list"
             THEN [channels EXCEPT
                     ![channelId] = PyList(Append(@.v, PyInt(channelLength)))]
             ELSE [channels EXCEPT ![channelId] = PyList(<<@>>)]
      ELSE SetAttr(channels, channelId, PyInt(channelLength))

\* for i in range(self.chanelsCount) (374-383), from iteration i on
RECURSIVE ChannelLoop(_, _, _, _, _)
ChannelLoop(file, p, i, n, channels) ==
    IF i >= n THEN [err |-> NoError, pos |-> p, v |-> channels]
    ELSE LET id == readShortInt(file, p)
             len == readInt(file, id.pos)
         IN IF id.err.type # "none"
              THEN [err |-> id.err, pos |-> id.pos, v |-> channels]
            ELSE IF len.err.type # "none"
              THEN [err |-> len.err, pos |-> len.pos, v |-> channels]
            ELSE ChannelLoop(file, len.pos, i + 1, n,
                             ChannelsPut(channels, id.v.v, len.v.v))

\* the keys of blendMap (390-394)
BlendKeys ==
    { <<110, 111, 114, 109>>,   \* "norm"
      <<100, 97, 114, 107>>,    \* "dark"
      <<108, 105, 116, 101>>,   \* "lite"
      <<104, 117, 101>>,        \* "hue"
      <<115, 97, 116>>,         \* "sat"
      <<99, 111, 108, 114>>,    \* "colr"
      <<108, 117, 109>>,        \* "lum"
      <<109, 117, 108>>,        \* "mul"
      <<115, 99, 114, 110>>,    \* "scrn"
      <<100, 105, 115, 115>>,   \* "diss"
      <<111, 118, 101, 114>>,   \* "over"
      <<104, 76, 105, 116>>,    \* "hLit"
      <<115, 76, 105, 116>>,    \* "sLit"
      <<100, 105, 102, 102>> }  \* "diff"

\* blendMap[blendCode]
blendMap(k) ==
    CASE k = <<110, 111, 114, 109>> -> "normal"
      [] k = <<100, 97, 114, 107>> -> "darken"
      [] k = <<108, 105, 116, 101>> -> "lighten"
      [] k = <<104, 117, 101>> -> "hue"
      [] k = <<115, 97, 116>> -> "saturation"
      [] k = <<99, 111, 108, 114>> -> "color"
      [] k = <<108, 117, 109>> -> "luminosity"
      [] k = <<109, 117, 108>> -> "multiply"
      [] k = <<115, 99, 114, 110>> -> "screen"
      [] k = <<100, 105, 115, 115>> -> "dissolve"
      [] k = <<111, 118, 101, 114>> -> "overlay"
      [] k = <<104, 76, 105, 116>> -> "hard light"
      [] k = <<115, 76, 105, 116>> -> "soft light"
      [] k = <<100, 105, 102, 102>> -> "difference"

\* the keys of clippingMap (402)
ClippingCodes == {0, 1}

\* clippingMap[clippingCode]
clippingMap(c) == IF c = 0 THEN "base" ELSE "non-base"

\* the flags read together with the filler byte that follows them
LayerFlags_TwoBytes(obj, file, p) ==
    LET r == readBits(file, p, 2)
    IN IF r.err.type # "none" THEN [err |-> r.err, pos |-> r.pos, self |-> obj]
       ELSE [err |-> NoError, pos |-> r.pos,
             self |-> SetAttr(SetAttr(obj, "transpProtected", PyInt(r.v[0])),
                              "visible", PyInt(r.v[1]))]

\* parse, 406-409: the attributes after the flags byte is read
LayerFlags(obj, file, p) ==
    LET r == readBits(file, p, 1)
    IN IF r.err.type # "none" THEN [err |-> r.err, pos |-> r.pos, self |-> obj]
       ELSE [err |-> NoError, pos |-> r.pos,
             self |-> SetAttr(SetAttr(obj, "transpProtected", PyInt(r.v[0])),
                              "visible", PyInt(r.v[1]))]

\* parse, 398-404: opacity and clipping, then the flags
LayerOpacityClipping(obj, file, p) ==
    LET o == readTinyInt(file, p)
        c == readTinyInt(file, o.pos)
        o1 == SetAttr(obj, "opacity", o.v)
    IN IF o.err.type # "none" THEN [err |-> o.err, pos |-> o.pos, self |-> obj]
       ELSE IF c.err.type # "none"
         THEN [err |-> c.err, pos |-> c.pos, self |-> o1]
       ELSE IF c.v.v \notin ClippingCodes
         THEN [err |-> KeyError(c.v.v), pos |-> c.pos, self |-> o1]
       ELSE LayerFlags(SetAttr(o1, "clipping",
                               PyTuple(<<c.v, PyText(clippingMap(c.v.v))>>)),
                       file, c.pos)

\* parse, 386-396: blend signature (an assert statement, 387) and blend key,
\* then the rest
LayerBlend(obj, file, p) ==
    LET sig == readString(file, p, 4)
        key == readString(file, sig.pos, 4)
    IN IF sig.err.type # "none"
         THEN [err |-> sig.err, pos |-> sig.pos, self |-> obj]
       ELSE IF env.asserts /\ ~PyEq(sig.v, SIGNATIRE_8BIM)
         THEN [err |-> AssertionError, pos |-> sig.pos, self |-> obj]
       ELSE IF key.err.type # "none"
         THEN [err |-> key.err, pos |-> key.pos, self |-> obj]
       ELSE IF key.v.v \notin BlendKeys
         THEN [err |-> KeyError(key.v.v), pos |-> key.pos, self |-> obj]
       ELSE LayerOpacityClipping(
                SetAttr(obj, "blend", PyTuple(<<key.v, PyText(blendMap(key.v.v))>>)),
                file, key.pos)

\* parse (361-409) over file from offset p: [err, pos, self], the exception
\* or NoError, the offset reached and the attributes set
LayerParse(obj, file, p) ==
    LET rect == getRectangle(file, p)
        cnt == readShortInt(file, rect.pos)
        o1 == SetAttr(obj, "rectangle", rect.v)
        o2 == SetAttr(o1, "chanelsCount", cnt.v)
        ch == ChannelLoop(file, cnt.pos, 0, cnt.v.v, obj["channels"].v)
        o3 == [o2 EXCEPT !["channels"] = [t |-> "dict", v |-> ch.v]]
    IN IF rect.err.type # "none"
         THEN [err |-> rect.err, pos |-> rect.pos, self |-> obj]
       ELSE IF cnt.err.type # "none"
         THEN [err |-> cnt.err, pos |-> cnt.pos, self |-> o1]
       ELSE IF ch.err.type # "none"
         THEN [err |-> ch.err, pos |-> ch.pos, self |-> o3]
       ELSE LayerBlend(o3, file, ch.pos)

\* PSDLayer(fileObj): __init__ (346-359), which ends in parse()
NewLayer(file, p) == LayerParse(LayerAttrs, file, p)

\* a layer record constructed on its own
LayerNew ==
    LET r == NewLayer(f, pos)
    IN /\ pc = "new"
       /\ dec = "Layer"
       /\ pos' = r.pos
       /\ err' = r.err
       /\ self' = r.self
       /\ pc' = IF r.err.type = "none" THEN "done" ELSE "raised"
       /\ log' = Append(log, [field |-> "layer", at |-> pos])
       /\ UNCHANGED <<env, dec, f, start, call>>

(***************************************************************************)
(* PSDLayerMask (226-332).                                                 *)
(***************************************************************************)
\* __init__ (278-289)
LayerMaskInit ==
    /\ pc = "new"
    /\ dec = "LayerMask"
    /\ self' = [a \in {"layersCount", "masklength", "layers"} |->
                   IF a = "layers" THEN PyList(<<>>) ELSE PyNone]
    /\ pc' = "lm_length"
    /\ UNCHANGED <<env, dec, f, start, call, pos, err, log>>

\* parse, 297
LayerMaskLength ==
    Field("lm_length", "lm_layerInfoLength", "length", "length",
          updateLength(f, pos), NoError)

\* parse, 303
LayerMaskLayerInfoLength ==
    Field("lm_layerInfoLength", "lm_layersCount", "layerInfoLength",
          "layerInfoLength", readInt(f, pos), NoError)

\* the layer count kept with its sign
LayersCountAbs_Signed(r) == r

\* parse, 316-318
LayersCountAbs(r) ==
    IF r.err.type = "none" /\ r.v.v < 0 THEN [r EXCEPT !.v = PyInt(-r.v.v)] ELSE r

\* parse, 309-318
LayerMaskLayersCount ==
    Field("lm_layersCount", "lm_layers", "layersCount", "layersCount",
          LayersCountAbs(readShortInt(f, pos)), NoError)

\* parse, 320: the loop goes on
MoreLayers == Len(self["layers"].v) < self["layersCount"].v

\* parse, 320-322: one iteration
LayerMaskLayer ==
    LET r == NewLayer(f, pos)
    IN /\ pc = "lm_layers"
       /\ MoreLayers
       /\ pos' = r.pos
       /\ err' = r.err
       /\ self' = IF r.err.type = "none"
                    THEN [self EXCEPT !["layers"] = PyList(Append(@.v, r.self))]
                    ELSE self
       /\ pc' = IF r.err.type = "none" THEN "lm_layers" ELSE "raised"
       /\ log' = Append(log, [field |-> "layer", at |-> pos])
       /\ UNCHANGED <<env, dec, f, start, call>>

\* the mask-data length read without waiting for the end of the layer loop
LayerMaskMaskLength_Early ==
    /\ pc = "lm_layers"
    /\ Field("lm_layers", "lm_skip", "masklength", "masklength",
             readInt(f, pos), NoError)

\* parse, 324
LayerMaskMaskLength ==
    /\ pc = "lm_layers"
    /\ ~MoreLayers
    /\ Field("lm_layers", "lm_skip", "masklength", "masklength",
             readInt(f, pos), NoError)

\* parse, 325
LayerMaskSkip ==
    /\ pc = "lm_skip"
    /\ Field("lm_skip", "done", "maskdata", "",
             skip(f, pos, self["masklength"].v), NoError)

(***************************************************************************)
(* PSDImageData (411-452) and ImageDataCompression (454-460).              *)
(***************************************************************************)
\* the keys of the code map (458)
CompressionCodes == {0, 1}

\* the name of a compression code
CompressionName(c) == IF c = 0 THEN "Raw data" ELSE "RLE compressed"

\* ImageDataCompression(code): CodeMapObject fails on a code it does not know
ImageDataCompression(r) ==
    IF r.err.type # "none" THEN r
    ELSE IF r.v.v \in CompressionCodes
      THEN [r EXCEPT !.v = [t |-> "CodeMapObject", code |-> r.v.v,
                            name |-> CompressionName(r.v.v)]]
      ELSE [r EXCEPT !.err = KeyError(r.v.v), !.v = PyNone]

\* __init__ (434-442)
ImageDataInit ==
    /\ pc = "new"
    /\ dec = "ImageData"
    /\ self' = [a \in {"compression", "bytesleft"} |-> PyNone]
    /\ pc' = "id_parse"
    /\ UNCHANGED <<env, dec, f, start, call, pos, err, log>>

\* the bytes left computed before the compression code is read
ImageDataParse_SizeFirst ==
    LET r == ImageDataCompression(readShortInt(f, pos))
    IN /\ pc = "id_parse"
       /\ pos' = r.pos
       /\ err' = IF r.err.type = "none" /\ ~env.tell
                   THEN AttributeError("tell") ELSE r.err
       /\ self' = IF r.err.type # "none" THEN self
                  ELSE IF ~env.tell THEN [self EXCEPT !["compression"] = r.v]
                  ELSE [self EXCEPT !["compression"] = r.v,
                                    !["bytesleft"] = PyInt(getsize(f) - pos)]
       /\ pc' = IF err'.type = "none" THEN "done" ELSE "raised"
       /\ log' = Append(log, [field |-> "compression", at |-> pos])
       /\ UNCHANGED <<env, dec, f, start, call>>

\* parse (444-447): the compression code is read and stored, then the bytes
\* left are taken from the source's own tell (446), which a source object
\* without that method does not have
ImageDataParse ==
    LET r == ImageDataCompression(readShortInt(f, pos))
    IN /\ pc = "id_parse"
       /\ pos' = r.pos
       /\ err' = IF r.err.type = "none" /\ ~env.tell
                   THEN AttributeError("tell") ELSE r.err
       /\ self' = IF r.err.type # "none" THEN self
                  ELSE IF ~env.tell THEN [self EXCEPT !["compression"] = r.v]
                  ELSE [self EXCEPT !["compression"] = r.v,
                                    !["bytesleft"] = PyInt(getsize(f) - r.pos)]
       /\ pc' = IF err'.type = "none" THEN "done" ELSE "raised"
       /\ log' = Append(log, [field |-> "compression", at |-> pos])
       /\ UNCHANGED <<env, dec, f, start, call>>

(***************************************************************************)
(* A call of validate on its own.                                          *)
(***************************************************************************)
ValidateCall ==
    /\ pc = "new"
    /\ dec = "validate"
    /\ err' = validate(call.label, call.value, call.range, call.mustBe, call.list)
    /\ pc' = IF err'.type = "none" THEN "done" ELSE "raised"
    /\ UNCHANGED <<env, dec, f, start, call, pos, self, log>>

(***************************************************************************)
(* The sources decoded: the fields of the file format, written big-endian. *)
(***************************************************************************)
RECURSIVE Flatten(_)
Flatten(seqs) == IF seqs = <<>> THEN <<>> ELSE Head(seqs) \o Flatten(Tail(seqs))

\* all sequences over S of length at most n
SeqsUpTo(S, n) == UNION {[1..k -> S] : k \in 0..n}

\* what a run depends on beside its input: the module as written or with
\* lines 5-6 read as "is not None", an interpreter that keeps asserts or
\* compiles them out (python -O), a source object with or without tell
Env(source, asserts, tell) == [source |-> source, asserts |-> asserts, tell |-> tell]
\* every run environment
Envs ==
    { Env(source, asserts, tell) :
        source \in {"as_written", "is_not_None"}, asserts \in BOOLEAN,
        tell \in BOOLEAN }

Scenario(d, file, s) ==
    [dec |-> d, f |-> file, start |-> s, call |-> PyNone]

\* the payload length of an indexed colour table (161)
IndexedColorLength == 768

HeaderBytes(sig, ver, res, ch, h, w, d, cm) ==
    sig \o U16(ver) \o res \o U16(ch) \o U32(h) \o U32(w) \o U16(d) \o S16(cm)

ValidHeader ==
    HeaderBytes(SIGNATURE.v, 1, Fill(6, 0), 3, 10, 10, 8, 3)

\* headers of every combination of a valid and an invalid value of each
\* field, headers of every combination of the values at the ends of the
\* ranges, each field on its own over the values about its range, and
\* headers cut short
HeaderScenarios ==
    { Scenario("Header", HeaderBytes(sig, ver, res, ch, h, w, d, cm), 0) :
        sig \in {SIGNATURE.v, <<56, 66, 80, 88>>},
        ver \in {1, 2},
        res \in {Fill(6, 0), <<0, 0, 0, 0, 1, 255>>},
        ch \in {0, 56},
        h \in {1, 30001},
        w \in {1, 30001},
        d \in {4, 16},
        cm \in {3, 6} }
    \cup { Scenario("Header", HeaderBytes(SIGNATURE.v, 1, Fill(6, 0), ch, h, w, d, cm), 0) :
             ch \in {1, 56}, h \in {1, 30000}, w \in {1, 30000},
             d \in {1, 8, 16}, cm \in 0..10 }
    \cup { Scenario("Header", HeaderBytes(SIGNATURE.v, 1, Fill(6, 0), ch, 10, 10, 8, 3), 0) :
             ch \in {0, 1, 56, 57} }
    \cup { Scenario("Header", HeaderBytes(SIGNATURE.v, 1, Fill(6, 0), 3, h, w, 8, 3), 0) :
             h \in {0, 1, 30000, 30001}, w \in {0, 1, 30000, 30001} }
    \cup { Scenario("Header", HeaderBytes(SIGNATURE.v, 1, Fill(6, 0), 3, 10, 10, d, 3), 0) :
             d \in {1, 4, 8, 16, 32} }
    \cup { Scenario("Header", HeaderBytes(SIGNATURE.v, 1, Fill(6, 0), 3, 10, 10, 8, cm), 0) :
             cm \in {-1, 11, 255, 256} }
    \cup { Scenario("Header", Fill(s, 7) \o ValidHeader, s) : s \in 1..MaxStart }
    \cup { Scenario("Header", SubSeq(ValidHeader, 1, k), 0) : k \in 0..25 }

\* headers that do not start at the start of their source, and at it
OffsetHeaderScenarios ==
    { Scenario("Header",
               Fill(s, 7) \o HeaderBytes(sig, 1, Fill(6, 0), ch, 10, 10, 8, cm), s) :
        s \in 0..MaxStart, sig \in {SIGNATURE.v, <<56, 66, 80, 88>>},
        ch \in {0, 3}, cm \in {3, 5} }

BlockLengths == 0..MaxLen \cup {IndexedColorLength}

BlockScenarios(d) ==
    { Scenario(d, Fill(s, 7) \o U32(L) \o Fill(L + extra, 7), s) :
        s \in 0..MaxStart, L \in BlockLengths, extra \in {-1, 0, 1} }
    \cup { Scenario(d, Fill(s, 7) \o Fill(k, 0), s) : s \in 0..MaxStart, k \in 0..3 }

LayerBytes(rect, chans, sig, key, opacity, clip, flags) ==
    U32(rect[1]) \o U32(rect[2]) \o U32(rect[3]) \o U32(rect[4])
    \o S16(Len(chans))
    \o Flatten([i \in 1..Len(chans) |-> S16(chans[i][1]) \o U32(chans[i][2])])
    \o sig \o key \o <<opacity, clip, flags>>

ChannelEntries == {-1, 0} \X {1, 2}
FlagBytes == {0, 1, 2, 3, 64, 128, 192, 255}
NormKey == <<110, 111, 114, 109>>
SomeKeys ==
    { NormKey, <<100, 105, 102, 102>>, <<104, 117, 101, 32>>,
      <<120, 120, 120, 120>>, <<78, 111, 114, 109>> }
SomeRect == <<0, 0, 10, 20>>
DupChannels == <<<<0, 1>>, <<0, 2>>>>
\* the extra data that follows the flags byte in the file format: a filler
\* byte and a 4-byte size, here 0
ExtraData == <<0, 0, 0, 0, 0>>

\* layer records of every choice of the blend signature, blend key,
\* opacity, clipping code and flags
LayerFieldScenarios ==
    { Scenario("Layer",
               LayerBytes(SomeRect, chans, sig, key, opacity, clip, flags), 0) :
        chans \in {<<>>, DupChannels},
        sig \in {SIGNATIRE_8BIM.v, SIGNATURE.v},
        key \in SomeKeys, opacity \in {0, 255}, clip \in {0, 1, 2, 255},
        flags \in FlagBytes }

LayerScenarios ==
    { Scenario("Layer",
               Fill(s, 7) \o LayerBytes(SomeRect, chans, SIGNATIRE_8BIM.v, NormKey,
                                        255, 0, flags) \o tail, s) :
        s \in {0, MaxStart}, chans \in SeqsUpTo(ChannelEntries, MaxChannels),
        flags \in {0, 2}, tail \in {<<>>, ExtraData} }
    \cup LayerFieldScenarios
    \cup
    { Scenario("Layer",
               SubSeq(LayerBytes(SomeRect, DupChannels, SIGNATIRE_8BIM.v, NormKey,
                                 255, 0, 0), 1, k), 0) :
        k \in {0, 15, 17, 19, 23, 30, 33, 37, 38, 39, 40} }
    \cup
    { Scenario("Layer",
               U32(0) \o U32(0) \o U32(1) \o U32(1) \o S16(-1) \o SIGNATIRE_8BIM.v
               \o NormKey \o <<255, 1, 3>>, 0) }

\* the layer records a Layer & Mask source is made of
LayerVariants ==
    { LayerBytes(SomeRect, <<>>, SIGNATIRE_8BIM.v, NormKey, 255, 0, 2),
      LayerBytes(<<1, 2, 3, 4>>, DupChannels, SIGNATIRE_8BIM.v,
                 <<100, 105, 102, 102>>, 128, 1, 3),
      LayerBytes(SomeRect, <<<<0, 1>>>>, SIGNATURE.v, NormKey, 255, 0, 0) }

LayerMaskBytes(declared, count, layers, masklen, avail) ==
    U32(declared) \o U32(2 + Len(layers)) \o S16(count) \o layers
    \o U32(masklen) \o Fill(avail, 7)

\* sections whose length fields are exact, of each choice of layer records
\* and either sign of the layer count
ExactLayerMaskScenarios ==
    { LET layers == Flatten(ls)
      IN Scenario("LayerMask",
                  LayerMaskBytes(4 + 2 + Len(layers) + 4 + masklen, sign * Len(ls),
                                 layers, masklen, masklen), 0) :
        ls \in SeqsUpTo(LayerVariants, MaxLayers), sign \in {-1, 1},
        masklen \in {0, MaxLen} }

\* sections of at most one layer record whose declared length is exact, too
\* large or zero, sections of no layers and no masks, and sections cut short
LayerMaskScenarios ==
    { LET layers == Flatten(ls)
          exact == 4 + 2 + Len(layers) + 4 + masklen
      IN Scenario("LayerMask",
                  Fill(s, 7)
                  \o LayerMaskBytes(IF declared = "exact" THEN exact
                                    ELSE IF declared = "more" THEN exact + 1 ELSE 0,
                                    sign * Len(ls), layers, masklen, masklen + extra),
                  s) :
        s \in {0, MaxStart}, ls \in SeqsUpTo(LayerVariants, 1),
        sign \in {-1, 1}, declared \in {"exact", "more", "zero"},
        masklen \in 0..MaxLen, extra \in {0, 1} }
    \cup
    \* a section of no layers and no masks: the length field alone, set to
    \* zero (230-231), and then the image data
    { Scenario("LayerMask", Fill(s, 7) \o U32(0) \o S16(code) \o Fill(k, 7), s) :
        s \in 0..MaxStart, code \in {0, 1}, k \in 0..(MaxLen + 10) }
    \cup
    { Scenario("LayerMask",
               SubSeq(LayerMaskBytes(10, 0, <<>>, 0, 0), 1, k), 0) : k \in 0..13 }

ImageDataScenarios ==
    { Scenario("ImageData", Fill(s, 7) \o S16(code) \o Fill(k, 7), s) :
        s \in 0..MaxStart, code \in {-1, 0, 1, 2, 256}, k \in 0..MaxLen }
    \cup { Scenario("ImageData", Fill(k, 0), 0) : k \in 0..1 }

\* the arguments of validate: one constraint, or none
ValidateValues ==
    { PyInt(0), PyInt(1), PyInt(5), PyInt(57), PyStr(<<>>), SIGNATURE,
      SIGNATIRE_8BIM }
ValidateConstraints ==
    { [range |-> PyNone, mustBe |-> m, list |-> PyNone] :
        m \in {PyInt(0), PyInt(1), PyStr(<<>>), SIGNATURE} }
    \cup
    { [range |-> r, mustBe |-> PyNone, list |-> PyNone] :
        r \in {PyRange(1, 56), PyRange(0, 0), PyRange(5, 4)} }
    \cup
    { [range |-> PyNone, mustBe |-> PyNone, list |-> l] :
        l \in {PyList(<<>>), DEPTH_LIST, PyList(<<PyInt(0)>>),
               PyList(<<SIGNATURE>>)} }
    \cup { [range |-> PyNone, mustBe |-> PyNone, list |-> PyNone] }

ValidateScenarios ==
    { [dec |-> "validate", f |-> <<>>, start |-> 0,
       call |-> [label |-> l, value |-> v, range |-> c.range,
                 mustBe |-> c.mustBe, list |-> c.list]] :
        l \in {PyText("Field"), PyNone},
        v \in ValidateValues \cup {PyNone}, c \in ValidateConstraints }

Scenarios ==
    HeaderScenarios \cup BlockScenarios("ColorMode")
    \cup BlockScenarios("ImageResources") \cup LayerScenarios
    \cup LayerMaskScenarios \cup ImageDataScenarios \cup ValidateScenarios
    \cup OffsetHeaderScenarios \cup ExactLayerMaskScenarios

(***************************************************************************)
(* The specification.                                                      *)
(***************************************************************************)
Init ==
    \E sc \in Scenarios, e \in Envs :
        /\ env = e
        /\ dec = sc.dec
        /\ f = sc.f
        /\ start = sc.start
        /\ call = sc.call
        /\ pos = sc.start
        /\ pc = "import"
        /\ self = <<>>
        /\ err = NoError
        /\ log = <<>>

Next ==
    \/ Import
    \/ HeaderInit
    \/ HeaderSignature
    \/ HeaderVersion
    \/ HeaderReserved
    \/ HeaderChannels
    \/ HeaderHeight
    \/ HeaderWidth
    \/ HeaderDepth
    \/ HeaderColorMode
    \/ ColorModeInit
    \/ ColorModeParse
    \/ ImageResourcesInit
    \/ ImageResourcesParse
    \/ LayerNew
    \/ LayerMaskInit
    \/ LayerMaskLength
    \/ LayerMaskLayerInfoLength
    \/ LayerMaskLayersCount
    \/ LayerMaskLayer
    \/ LayerMaskMaskLength
    \/ LayerMaskSkip
    \/ ImageDataInit
    \/ ImageDataParse
    \/ ValidateCall

Spec == Init /\ [][Next]_vars

(***************************************************************************)
(* What the claims speak of.                                               *)
(***************************************************************************)
\* the module is loaded: a decoder is under construction, or its
\* construction has returned or raised
Loaded == pc \notin {"import", "unloaded"}
Finished == pc \in {"done", "raised"}

\* the fields of a header source, by their places in the file format
FileSignature == SubSeq(f, start + 1, start + 4)
FileVersion == readShortInt(f, start + 4).v.v
FileChannels == readShortInt(f, start + 12).v.v
FileHeight == readInt(f, start + 14).v.v
FileWidth == readInt(f, start + 18).v.v
FileDepth == readShortInt(f, start + 22).v.v
FileColorMode == readShortInt(f, start + 24).v.v

\* a header construction at offset 0 over a source that holds a whole header
HeaderRun == Loaded /\ dec = "Header" /\ start = 0 /\ Len(f) >= 26

\* the order of the header's cursor calls, and where each starts and ends
HeaderOrder ==
    << [field |-> "Signature", at |-> 0, end |-> 4],
       [field |-> "Version", at |-> 4, end |-> 6],
       [field |-> "Reserved", at |-> 6, end |-> 12],
       [field |-> "Channels number", at |-> 12, end |-> 14],
       [field |-> "Height", at |-> 14, end |-> 18],
       [field |-> "Width", at |-> 18, end |-> 22],
       [field |-> "Depth", at |-> 22, end |-> 24],
       [field |-> "Color Mode", at |-> 24, end |-> 26] >>

\* field i of HeaderOrder is valid in the source
HeaderFieldValid(i) ==
    CASE i = 1 -> FileSignature = <<56, 66, 80, 83>>
      [] i = 2 -> FileVersion = 1
      [] i = 3 -> TRUE
      [] i = 4 -> FileChannels \in 1..56
      [] i = 5 -> FileHeight \in 1..30000
      [] i = 6 -> FileWidth \in 1..30000
      [] i = 7 -> FileDepth \in {1, 8, 16}
      [] i = 8 -> FileColorMode \in {0, 1, 2, 3, 4, 7, 8, 9}

\* the attribute that holds field i
HeaderAttr(i) ==
    CASE i = 1 -> "signature"
      [] i = 2 -> "version"
      [] i = 3 -> ""
      [] i = 4 -> "channelsNum"
      [] i = 5 -> "height"
      [] i = 6 -> "width"
      [] i = 7 -> "depth"
      [] i = 8 -> "colorMode"

\* the labels the format documents for the colour mode codes
DocumentedColorMode(code) ==
    CASE code = 0 -> "Bitmap"
      [] code = 1 -> "Grayscale"
      [] code = 2 -> "Indexed Color"
      [] code = 3 -> "RGB Color"
      [] code = 4 -> "CMYK Color"
      [] code = 7 -> "Multichannel"
      [] code = 8 -> "Duotone"
      [] code = 9 -> "Lab Color"

\* C1: a Color Mode or Image Resources decode over a source that holds the
\* length field and the L bytes it declares returns with the cursor at its
\* starting offset plus 4 plus L, and reports L as the section's length.
C1_LengthAccounting ==
    (dec \in {"ColorMode", "ImageResources"} /\ Finished /\ start + 4 <= Len(f)) =>
        LET L == BigEndian(SubSeq(f, start + 1, start + 4))
        IN start + 4 + L <= Len(f) =>
              /\ pc = "done"
              /\ pos = start + 4 + L
              /\ self["length"] = PyInt(L)

C1_Witness ==
    /\ dec = "ColorMode"
    /\ pc = "done"
    /\ start > 0
    /\ self["length"] = PyInt(IndexedColorLength)
    /\ pos = start + 4 + IndexedColorLength

\* C2: a decoded layer record holds, for every channel id that two or more
\* channel entries share, the list of all their lengths in encounter order.
C2_RepeatedChannelIds ==
    (dec = "Layer" /\ pc = "done") =>
        LET n == self["chanelsCount"].v
            entry(i) == [id |-> readShortInt(f, start + 18 + 6 * (i - 1)).v.v,
                         len |-> readInt(f, start + 20 + 6 * (i - 1)).v.v]
            entries == [i \in 1..n |-> entry(i)]
        IN \A id \in {entries[i].id : i \in 1..n} :
              LET Same(e) == e.id = id
                  mine == SelectSeq(entries, Same)
              IN Len(mine) >= 2 =>
                    self["channels"].v[id] =
                        PyList([i \in 1..Len(mine) |-> PyInt(mine[i].len)])

\* C3: a Layer & Mask decode that completes has advanced the cursor by the
\* declared section length from the end of the length field.
C3_DoneAtDeclaredEnd ==
    (dec = "LayerMask" /\ pc = "done") => pos = start + 4 + self["length"].v

\* C4: a header decode succeeds only with channel count in 1..56, height and
\* width in 1..30000 and depth in {1, 8, 16}; with the other fields valid it
\* succeeds at 1 and at the upper bounds, and a field out of range is
\* rejected by a range error (depth: by an error) that names it.
C4_HeaderRanges ==
    (HeaderRun /\ Finished) =>
        /\ pc = "done" => \A i \in 4..7 : HeaderFieldValid(i)
        /\ (\A i \in 1..8 : HeaderFieldValid(i)) => pc = "done"
        /\ \A i \in 4..7 :
              ((\A j \in 1..(i - 1) : HeaderFieldValid(j)) /\ ~HeaderFieldValid(i)) =>
                  /\ pc = "raised"
                  /\ err.type = "BaseException"
                  /\ err.label = PyText(HeaderOrder[i].field)
                  /\ err.kind = IF i = 7 THEN "list" ELSE "range"

C4_Witness ==
    /\ HeaderRun
    /\ pc = "done"
    /\ self["channelsNum"] = PyInt(56)
    /\ self["height"] = PyInt(30000)
    /\ self["width"] = PyInt(1)
    /\ self["depth"] = PyInt(16)

\* C5: when the header's earlier fields are valid, a colour mode code of
\* {0, 1, 2, 3, 4, 7, 8, 9} is stored with its documented label, and any other
\* code fails the decode with no label stored.
C5_ColorModeLabels ==
    (HeaderRun /\ Finished /\ \A i \in 1..7 : HeaderFieldValid(i)) =>
        IF FileColorMode \in {0, 1, 2, 3, 4, 7, 8, 9}
          THEN /\ pc = "done"
               /\ self["colorMode"] = [t |-> "dict", code |-> FileColorMode,
                                       label |-> DocumentedColorMode(FileColorMode)]
          ELSE /\ pc = "raised"
               /\ err = KeyError(FileColorMode)
               /\ self["colorMode"] = PyNone

C5_Witness ==
    /\ HeaderRun
    /\ pc = "raised"
    /\ FileColorMode = 6
    /\ err.type = "KeyError"
    /\ Len(log) = 8

\* C6: over a header source whose signature is not the tag, only the
\* signature is ever read, and the decode ends in a format error that
\* names "Signature".
C6_BadSignature ==
    (HeaderRun /\ FileSignature # <<56, 66, 80, 83>>) =>
        /\ pc \in {"new", "h_signature", "raised"}
        /\ Len(log) <= 1
        /\ pc = "raised" =>
              /\ err.type = "BaseException"
              /\ err.kind = "mustBe"
              /\ err.label = PyText("Signature")
              /\ log = <<[field |-> "Signature", at |-> 0]>>
              /\ pos = 4
              /\ \A a \in DOMAIN self \ {"signature"} : self[a] = PyNone

C6_Witness ==
    /\ HeaderRun
    /\ FileSignature = <<56, 66, 80, 88>>
    /\ pc = "raised"
    /\ err.label = PyText("Signature")

\* the one constraint of a validate call is not met by its value
ConstraintViolated ==
    \/ call.mustBe.t # "none" /\ ~PyEq(call.value, call.mustBe)
    \/ call.range.t # "none" /\ ~PyIn(call.value, call.range)
    \/ call.list.t # "none" /\ ~PyIn(call.value, call.list)

\* C7: validate raises a format error exactly when the value does not meet
\* the constraint, whatever the constraint.
C7_ValidateExact ==
    (dec = "validate" /\ Finished /\ call.label.t # "none"
       /\ call.value.t # "none") =>
        IF ConstraintViolated
          THEN pc = "raised" /\ err.type = "BaseException"
          ELSE pc = "done"

\* C8: the header's cursor calls are made in the order of the format, each at
\* its place; a field is read only when all fields before it are valid; a
\* decode that raises stops at the field it read last, with the attributes of
\* the later fields unset, and only a header with every field valid is
\* returned.
C8_HeaderOrder ==
    HeaderRun =>
        /\ Len(log) <= 8
        /\ \A i \in 1..Len(log) :
              /\ log[i] = [field |-> HeaderOrder[i].field, at |-> HeaderOrder[i].at]
              /\ (i < Len(log) \/ pc # "raised") => HeaderFieldValid(i)
        /\ (pc = "raised" /\ Len(log) > 0) =>
              /\ ~HeaderFieldValid(Len(log))
              /\ pos = HeaderOrder[Len(log)].end
              /\ \A i \in (Len(log) + 1)..8 :
                    HeaderAttr(i) \in DOMAIN self => self[HeaderAttr(i)] = PyNone
        /\ pc = "done" => Len(log) = 8 /\ \A i \in 1..8 : HeaderFieldValid(i)
        /\ pc \notin {"new", "raised", "done"} => pos = HeaderOrder[Len(log) + 1].at

C8_Witness ==
    /\ HeaderRun
    /\ pc = "raised"
    /\ Len(log) = 6
    /\ FileWidth = 30001
    /\ ~HeaderFieldValid(7)
    /\ self["depth"] = PyNone
    /\ pos = 22

\* C9: a header decode succeeds exactly when the fields other than the
\* reserved bytes are valid; it then leaves the cursor 26 bytes on and the
\* attributes hold the values of those fields and nothing else.
C9_HeaderFrame ==
    (HeaderRun /\ Finished) =>
        /\ pc = "done" <=> \A i \in {1, 2, 4, 5, 6, 7, 8} : HeaderFieldValid(i)
        /\ pc = "done" =>
              /\ pos = start + 26
              /\ err = NoError
              /\ self = [a \in {"signature", "version", "channelsNum", "rows",
                                "height", "width", "depth", "colorMode"} |->
                           CASE a = "signature" -> PyStr(FileSignature)
                             [] a = "version" -> PyInt(FileVersion)
                             [] a = "channelsNum" -> PyInt(FileChannels)
                             [] a = "rows" -> PyNone
                             [] a = "height" -> PyInt(FileHeight)
                             [] a = "width" -> PyInt(FileWidth)
                             [] a = "depth" -> PyInt(FileDepth)
                             [] a = "colorMode" ->
                                  [t |-> "dict", code |-> FileColorMode,
                                   label |-> DocumentedColorMode(FileColorMode)]]

C9_Witness ==
    /\ HeaderRun
    /\ pc = "done"
    /\ pos = 26
    /\ SubSeq(f, 7, 12) = <<0, 0, 0, 0, 1, 255>>

\* the layer count field of a Layer & Mask source, as a signed number
FileLayerCount == readShortInt(f, start + 8).v.v
Abs(n) == IF n < 0 THEN -n ELSE n

\* C10: a Layer & Mask decode records |c| as its layer count, never holds
\* more than |c| layer records, holds exactly |c| once the layers are
\* decoded, each decoded where the one before it stopped, and stores
\* nothing else.
C10_LayerCount ==
    (dec = "LayerMask" /\ pc \in {"lm_layers", "lm_skip", "done"}) =>
        LET layers == self["layers"].v
            at == [i \in 1..Len(layers) |-> log[3 + i].at]
        IN /\ self["layersCount"] = PyInt(Abs(FileLayerCount))
           /\ Len(layers) <= Abs(FileLayerCount)
           /\ pc \in {"lm_skip", "done"} => Len(layers) = Abs(FileLayerCount)
           /\ \A i \in 1..Len(layers) :
                 /\ log[3 + i].field = "layer"
                 /\ at[i] = IF i = 1 THEN start + 10 ELSE NewLayer(f, at[i - 1]).pos
                 /\ layers[i] = NewLayer(f, at[i]).self
           /\ DOMAIN self \subseteq {"length", "layerInfoLength", "layersCount",
                                     "masklength", "layers"}

C10_Witness ==
    /\ dec = "LayerMask"
    /\ pc = "done"
    /\ FileLayerCount = -MaxLayers
    /\ Len(self["layers"].v) = MaxLayers
    /\ self["layersCount"] = PyInt(MaxLayers)

\* the declared channel count of a layer source, the number of channel
\* entries that follow it, and the offset of its flags byte
FileChannelCount == readShortInt(f, start + 16).v.v
FileChannelEntries == IF FileChannelCount < 0 THEN 0 ELSE FileChannelCount
FileFlagsAt == start + 28 + 6 * FileChannelEntries
FileFlags == f[FileFlagsAt + 1]

\* a layer record constructed on its own, and returned
LayerDone == dec = "Layer" /\ pc = "done"

\* C11: the transparency-protected flag of a decoded layer is bit 0 (the
\* least significant) of the flags byte, and its visible flag is bit 1.
C11_FlagBits ==
    LayerDone =>
        /\ self["transpProtected"] = PyInt(FileFlags % 2)
        /\ self["visible"] = PyInt((FileFlags \div 2) % 2)

\* C12: a layer decode over a source that holds the extra data (a filler
\* byte, the 4-byte extra data size and that many bytes) returns with the
\* cursor at the first byte after the extra data.
C12_ExtraDataSkipped ==
    (LayerDone /\ Len(f) >= FileFlagsAt + 6) =>
        LET size == readInt(f, FileFlagsAt + 2).v.v
        IN Len(f) >= FileFlagsAt + 6 + size => pos = FileFlagsAt + 6 + size

\* C13: an Image Data decode reads the 16-bit compression code and nothing
\* else: code 0 is stored as raw data and code 1 as RLE, any other code
\* fails with nothing stored; on success the cursor is 2 bytes on and the
\* bytes left are those from there to the end of the source.  Over a source
\* object that has a tell method the decode of code 0 or 1 succeeds.
C13_ImageData ==
    (dec = "ImageData" /\ Finished /\ Len(f) >= start + 2) =>
        LET code == Signed(BigEndian(SubSeq(f, start + 1, start + 2)), 16)
        IN /\ log = <<[field |-> "compression", at |-> start]>>
           /\ pos <= start + 2
           /\ code \in {0, 1} =>
                 /\ pos = start + 2
                 /\ self["compression"].code = code
                 /\ self["compression"].name =
                       (IF code = 0 THEN "Raw data" ELSE "RLE compressed")
           /\ code \notin {0, 1} =>
                 /\ pc = "raised"
                 /\ err.type = "KeyError"
                 /\ self["compression"] = PyNone
           /\ pc = "done" =>
                 /\ code \in {0, 1}
                 /\ self["bytesleft"] = PyInt(Len(f) - (start + 2))
                 /\ DOMAIN self = {"compression", "bytesleft"}
           /\ (code \in {0, 1} /\ env.tell) => pc = "done"

C13_Witness ==
    /\ dec = "ImageData"
    /\ env.tell
    /\ pc = "done"
    /\ start > 0
    /\ self["compression"].code = 1
    /\ self["bytesleft"] = PyInt(MaxLen)

\* the source holds a whole layer record at offset a whose blend signature
\* is not the tag, whose blend key is no key of the table or whose clipping
\* code is neither 0 nor 1
ChannelEntriesAt(a) ==
    LET n == readShortInt(f, a + 16).v.v IN IF n < 0 THEN 0 ELSE n
WholeLayerAt(a) ==
    /\ Len(f) >= a + 18
    /\ Len(f) >= a + 29 + 6 * ChannelEntriesAt(a)
BadLayerAt(a) ==
    LET base == a + 18 + 6 * ChannelEntriesAt(a)
    IN /\ WholeLayerAt(a)
       /\ \/ SubSeq(f, base + 1, base + 4) # <<56, 66, 73, 77>>
          \/ SubSeq(f, base + 5, base + 8) \notin BlendKeys
          \/ f[base + 10] \notin {0, 1}

\* C14: a layer record whose blend signature is not '8BIM', whose blend key
\* is not in the table or whose clipping code is not 0 or 1 fails to decode,
\* with no name stored for the unknown code; in a Layer & Mask decode the
\* failure is the decode's own and the record is not added to the layers.
C14_LayerFailures ==
    /\ (dec = "Layer" /\ Finished /\ BadLayerAt(start)) =>
          /\ pc = "raised"
          /\ err.type \in {"AssertionError", "KeyError"}
          /\ self["clipping"] = PyTuple(<<>>)
          /\ err.type = "AssertionError" => self["blend"] = PyTuple(<<>>)
          /\ (err.type = "KeyError" /\ self["blend"] # PyTuple(<<>>)) =>
                self["blend"].v[1].v \in BlendKeys /\ err.key \notin {0, 1}
    /\ dec = "LayerMask" =>
          \A i \in 1..Len(log) :
             (log[i].field = "layer" /\ BadLayerAt(log[i].at)) =>
                 /\ i = Len(log)
                 /\ pc = "raised"
                 /\ err.type \in {"AssertionError", "KeyError"}
                 /\ Len(self["layers"].v) = i - 4

\* the cursor calls of a Layer & Mask decode, in their order: call i of the
\* log when the section counts n layers
LayerMaskStep(i, n) ==
    CASE i = 1 -> "length"
      [] i = 2 -> "layerInfoLength"
      [] i = 3 -> "layersCount"
      [] i > 3 /\ i <= 3 + n -> "layer"
      [] i = 4 + n -> "masklength"
      [] i = 5 + n -> "maskdata"
      [] OTHER -> "none"

\* the calls logged so far are the first calls of that order, each at the
\* offset where the call before it stopped
C15_Order ==
    dec = "LayerMask" =>
        LET n == IF Len(log) > 3 THEN Abs(FileLayerCount) ELSE 0
        IN /\ \A i \in 1..Len(log) : log[i].field = LayerMaskStep(i, n)
           /\ \A i \in 1..Len(log) :
                 log[i].at =
                    CASE i \in {1, 2, 3} -> start + 4 * (i - 1)
                      [] i = 4 -> start + 10
                      [] i > 4 /\ i <= 4 + n ->
                           log[i - 1].at + 29 + 6 * ChannelEntriesAt(log[i - 1].at)
                      [] OTHER -> log[i - 1].at + 4
           /\ Len(log) > 0 => pos >= log[Len(log)].at
           /\ (\E i \in 1..Len(log) : log[i].field = "masklength") =>
                 Len(self["layers"].v) = n

\* C15: a Layer & Mask decode makes its cursor calls in the order section
\* length, layer-info length, layer count, the layer records, mask-data
\* length, mask-data skip; each layer record starts where the one before it
\* stopped, the mask-data length is read once all layer records are decoded,
\* and the cursor's offset never decreases.
C15_FixedOrder ==
    /\ []C15_Order
    /\ [][dec = "LayerMask" => pos' >= pos]_vars

C15_Witness ==
    /\ dec = "LayerMask"
    /\ pc = "done"
    /\ Len(log) = 5 + MaxLayers
    /\ log[4 + MaxLayers].field = "masklength"
    /\ log[4].at < log[5].at
    /\ pos > log[5 + MaxLayers].at

\* C16: a Layer & Mask decode over a section whose declared length is 0
\* completes having consumed the 4-byte length field alone, with no layer
\* record decoded and the cursor at the byte after the length field.
C16_EmptySection ==
    (dec = "LayerMask" /\ Finished /\ Len(f) >= start + 4
       /\ BigEndian(SubSeq(f, start + 1, start + 4)) = 0) =>
        /\ pc = "done"
        /\ pos = start + 4
        /\ self["layers"] = PyList(<<>>)
        /\ log = <<[field |-> "length", at |-> start]>>

\* C17: a Header constructed over a source that is not at offset 0 raises
\* at once: no cursor call is made, the offset stays where it was and no
\* attribute is set.
C17_HeaderNotAtStart ==
    (Loaded /\ dec = "Header" /\ start # 0) =>
        /\ pc \in {"new", "raised"}
        /\ pos = start
        /\ log = <<>>
        /\ self = <<>>
        /\ pc = "raised" => err = TypeError

\* C18 as stated: a layer decode that succeeds with declared channel count
\* n has advanced the cursor by 29 + 6 * n bytes.
C18_Advance ==
    LayerDone => pos = start + 29 + 6 * FileChannelCount

\* C18, amended: a layer decode that succeeds with declared channel count n
\* has advanced the cursor by 29 + 6 * n bytes when n >= 0 and by 29 bytes
\* when n < 0 (no channel entry is read), whatever the channel ids and
\* whatever follows the flags byte.
C18_AdvanceAmended ==
    LayerDone =>
        /\ pos = start + 29 + 6 * (IF FileChannelCount < 0 THEN 0 ELSE FileChannelCount)
        /\ self["chanelsCount"] = PyInt(FileChannelCount)

C18_Witness ==
    /\ LayerDone
    /\ FileChannelCount = MaxChannels
    /\ pos = start + 29 + 6 * MaxChannels
    /\ Len(f) = pos + 5
    /\ DOMAIN self["channels"].v = {-1, 0}

====
